---------------------------- MODULE Spec2Model ----------------------------
(***************************************************************************)
(* A model of the portfolio application (src/unnamed/part_000): the        *)
(* debounce utility, the description-drafting tool with its bounded retry  *)
(* loop, the identity hook useSupabaseAuth, the repository hook            *)
(* useProjects and the manager-mode gating of the App component.           *)
(*                                                                         *)
(* Texts that the code inspects character by character (trim, split) are   *)
(* sequences of one-character strings; texts that are only tested for      *)
(* emptiness or compared are strings.                                      *)
(***************************************************************************)
EXTENDS Integers, Sequences, FiniteSets, TLC

VARIABLES
    \* ---- ProjectForm state (part_000:433-439)
    title,              \* form field "title"
    technologies,       \* form field "technologies" (character sequence)
    description,        \* form field "description" (character sequence)
    \* ---- ProjectDraftingTool (part_000:297-357)
    isLoading,          \* useState isLoading
    draftError,         \* useState error of the drafting tool
    draftPc,            \* where the running invocation is suspended
    attempt,            \* loop variable of the retry loop
    draftQuery,         \* title and technologies the current/last invocation was called with
    draftRequests,      \* requests sent by the current/last invocation
    draftWaits,         \* backoff delays awaited by the current/last invocation
    draftLog,           \* responses received by the current/last invocation
    draftOutcome,       \* how the last invocation ended
    draftInFlight,      \* invocations that passed validation and have not ended
    \* ---- the event loop's clock and one debounce(func, delay) wrapper
    now,                \* current time in ms
    dbDelay,            \* the delay the wrapper was built with
    dbTimers,           \* pending setTimeout callbacks of the wrapper
    timeoutId,          \* the wrapper's closure variable timeoutId (0: unset)
    dbCalls,            \* invocations of the wrapped function so far
    dbExecs,            \* executions of func so far
    \* ---- configuration read at startup (part_000:5-15)
    supabase,           \* TRUE when the service handle was created, FALSE when it is null
    VERCEL_OWNER_ID,    \* the configured owner token, or NULL
    localStorage,       \* the value stored under 'portfolio_user_id', or NULL
    \* ---- useSupabaseAuth (part_000:33-67)
    authRan,            \* the hook's effect has run
    userId,
    isAuthReady,
    isAppOwner,
    \* ---- useProjects (part_000:75-207)
    projects,           \* the cached list (sequence of projects)
    loading,
    error,
    channel,            \* "none", "joining" or "subscribed"
    queries,            \* list queries in flight, in the order they were issued
    requests,           \* insert/update/delete requests in flight
    timers,             \* pending setTimeout callbacks of the debounced addProject wrappers
    addTimeoutId,       \* timeoutId of the wrapper made by the latest render (0: unset)
    \* ---- the hosted data service
    store,              \* rows of the table 'projects'
    nextId,             \* the next identifier the service assigns
    \* ---- history, for stating properties
    createCalls,        \* calls of the debounced addProject so far
    lastWrite,          \* the last request that changed the table, with the rows it replaced or removed
    cacheFresh,         \* projects was set from a query answered after lastWrite
    insertsIssued,      \* the insert requests sent so far
    \* ---- App (part_000:608-640) and ProjectForm (part_000:429-489)
    isManagerMode,
    currentProject,     \* <<>> for null, else <<project>>
    formId,             \* form field "id" (0 for '')
    submissionError,
    lastToggle,         \* what the last click on the manager-mode button did
    \* ---- the tag filter (part_000:610, 571-605)
    activeTag,          \* useState activeTag (a character sequence; <<>> for null)
    tagClicks,          \* history: the last two clicks on the filter's buttons
    \* ---- the life of the page: App is mounted, unmounted, mounted again
    mounted,            \* an instance of App and of its hooks is active
    mounts,             \* the number of the current (or last) instance
    subscriptions,      \* the channels the service holds for this browser
    \* ---- the seeding effect of App (part_000:673-709)
    seeding,            \* the effect is followed (it is left out where the table is under the caller's control)
    seedTimer,          \* when the effect's pending setTimeout is due (0: none pending)
    everHeld,           \* history: projects has held a project since the mount
    seedLog             \* history: what the seeding callback saw, each time it ran

draftVars == <<isLoading, draftError, draftPc, attempt, draftQuery, draftRequests,
               draftWaits, draftLog, draftOutcome, draftInFlight>>
formVars == <<title, technologies, description>>
dbVars == <<dbDelay, dbTimers, timeoutId, dbCalls, dbExecs>>
configVars == <<supabase, VERCEL_OWNER_ID, seeding>>
lifeVars == <<mounted, mounts, subscriptions>>
seedVars == <<seedTimer, everHeld, seedLog>>
envVars == <<configVars, lifeVars, seedVars>>
authVars == <<localStorage, authRan, userId, isAuthReady, isAppOwner>>
hookVars == <<projects, loading, error, channel, queries, requests, timers,
              addTimeoutId>>
serviceVars == <<store, nextId>>
historyVars == <<createCalls, lastWrite, cacheFresh, insertsIssued>>
filterVars == <<activeTag, tagClicks>>
appVars == <<isManagerMode, currentProject, formId, submissionError, lastToggle,
             filterVars>>
repoVars == <<envVars, authVars, hookVars, serviceVars, historyVars>>
vars == <<formVars, draftVars, now, dbVars, repoVars, appVars>>

\* what the drafting tool and the form inputs leave alone
outsideForm == <<now, dbVars, repoVars, appVars>>
\* what the debounce wrapper leaves alone
outsideDebounce == <<formVars, draftVars, repoVars, appVars>>
\* what the repository client leaves alone
outsideRepo == <<formVars, draftVars, dbVars, appVars>>

NULL == "null"
\* the null of activeTag, which otherwise holds a non-empty character sequence
NoTag == <<>>

---------------------------------------------------------------------------
(* Bounds *)

\* longest text a generation response carries
MaxTextLen == 2
\* invocations of the debounced wrapper that are followed
MaxCalls == 3
\* the clock stops advancing here
MaxTime == 800
\* the largest step of the clock
TickMs == 100
\* instances of App that are followed
MaxMounts == 2
\* runs of the seeding callback that are followed
MaxSeedings == 2
\* calls of the debounced addProject that are followed
MaxCreates == 2
\* list queries in flight at once
MaxInflight == 1
\* insert/update/delete requests in flight at once
MaxPending == 1
\* list queries in flight at once where queries may overlap
MaxOverlap == 2
\* longest technologies field of a loaded project
MaxTagLen == 3
\* projects in a loaded list
MaxListLen == 2

---------------------------------------------------------------------------
(* Texts *)

Chars == {"a", " "}

IsSpace(c) == c = " "

RECURSIVE TrimStart(_)
TrimStart(s) ==
    IF s # <<>> /\ IsSpace(Head(s)) THEN TrimStart(Tail(s)) ELSE s

RECURSIVE TrimEnd(_)
TrimEnd(s) ==
    IF s # <<>> /\ IsSpace(s[Len(s)])
    THEN TrimEnd(SubSeq(s, 1, Len(s) - 1))
    ELSE s

\* a trim that forgets the trailing whitespace
TrimLeadingOnly(s) == TrimStart(s)

\* String.prototype.trim
Trim(s) == TrimEnd(TrimStart(s))

\* all character sequences of length at most n
TextsUpTo(n) == UNION {[1..k -> Chars] : k \in 0..n}

\* JavaScript truthiness of a string held as a character sequence
Truthy(s) == s # <<>>

---------------------------------------------------------------------------
(* ProjectDraftingTool: generateProjectDescription *)

MAX_RETRIES == 3
INITIAL_DELAY_MS == 1000

ValidationMsg == "Please fill in the Title and Technologies fields first."
ExhaustedMsg == "Failed to generate description after multiple attempts."

RECURSIVE Pow2(_)
Pow2(n) == IF n = 0 THEN 1 ELSE 2 * Pow2(n - 1)

\* what one fetch of the generation endpoint can come back with:
\* a transport error (fetch rejects), a non-OK status, an OK envelope without
\* candidate text, or an OK envelope whose first candidate carries a text
DraftResponses ==
    {[kind |-> "transport", hasText |-> FALSE, text |-> <<>>],
     [kind |-> "status", hasText |-> FALSE, text |-> <<>>],
     [kind |-> "ok", hasText |-> FALSE, text |-> <<>>]}
    \cup {[kind |-> "ok", hasText |-> TRUE, text |-> t] : t \in TextsUpTo(MaxTextLen)}

\* a validation that forgets the technologies field
DraftTitleMissing(t, k) == t = ""

\* part_000:302  !title || !technologies
DraftInputsMissing(t, k) == t = "" \/ ~Truthy(k)

\* part_000:332-339  response.ok and a truthy first-candidate text
DraftUsable(r) == r.kind = "ok" /\ r.hasText /\ Truthy(r.text)

\* a ceiling test that is off by one
IsPastLastAttempt(a) == a > MAX_RETRIES

\* part_000:348  attempt === MAX_RETRIES
IsLastAttempt(a) == a = MAX_RETRIES

\* part_000:353  INITIAL_DELAY_MS * Math.pow(2, attempt - 1)
BackoffDelay(a) == INITIAL_DELAY_MS * Pow2(a - 1)

\* a button that stays enabled while an invocation runs
DraftControlIgnoresLoading == title = "" \/ ~Truthy(technologies)

\* part_000:364  disabled={isLoading || !title || !technologies}
DraftControlDisabled == isLoading \/ title = "" \/ ~Truthy(technologies)

\* part_000:301-326: generateProjectDescription up to its first suspension
\* (the first fetch)
GenerateStart ==
    /\ draftQuery' = [title |-> title, technologies |-> technologies]
    /\ draftWaits' = <<>>
    /\ draftLog' = <<>>
    /\ IF DraftInputsMissing(title, technologies)
       THEN /\ draftError' = ValidationMsg
            /\ draftOutcome' = "invalid"
            /\ draftRequests' = 0
            /\ UNCHANGED <<isLoading, draftPc, attempt, draftInFlight>>
       ELSE /\ isLoading' = TRUE
            /\ draftInFlight' = draftInFlight + 1
            /\ draftError' = NULL
            /\ attempt' = 1
            /\ draftRequests' = 1
            /\ draftOutcome' = "running"
            /\ draftPc' = "fetching"
    /\ UNCHANGED <<formVars, outsideForm>>

\* a call of generateProjectDescription while no invocation is running
generateProjectDescription ==
    /\ draftPc = "idle"
    /\ GenerateStart

\* part_000:361-364: a click on the button, which the browser delivers
\* while the button is not disabled
onClickGenerate ==
    /\ ~DraftControlDisabled
    /\ GenerateStart

\* part_000:326-355: the fetch of the current attempt settles with r
DraftFetchSettles(r) ==
    /\ draftPc = "fetching"
    /\ draftLog' = Append(draftLog, r)
    /\ IF DraftUsable(r)
       THEN /\ description' = Trim(r.text)
            /\ isLoading' = FALSE
            /\ draftPc' = "idle"
            /\ draftOutcome' = "success"
            /\ draftInFlight' = draftInFlight - 1
            /\ UNCHANGED <<draftError, draftWaits>>
       ELSE IF IsLastAttempt(attempt)
       THEN /\ draftError' = ExhaustedMsg
            /\ isLoading' = FALSE
            /\ draftPc' = "idle"
            /\ draftOutcome' = "exhausted"
            /\ draftInFlight' = draftInFlight - 1
            /\ UNCHANGED <<description, draftWaits>>
       ELSE /\ draftWaits' = Append(draftWaits, BackoffDelay(attempt))
            /\ draftPc' = "waiting"
            /\ UNCHANGED <<description, draftError, isLoading, draftOutcome,
                           draftInFlight>>
    /\ UNCHANGED <<title, technologies, attempt, draftQuery, draftRequests,
                   outsideForm>>

\* part_000:354 then 324-326: the backoff timer resolves, the loop increments
\* attempt and sends the next fetch
DraftBackoffElapses ==
    /\ draftPc = "waiting"
    /\ attempt' = attempt + 1
    /\ draftRequests' = draftRequests + 1
    /\ draftPc' = "fetching"
    /\ UNCHANGED <<formVars, isLoading, draftError, draftQuery, draftWaits,
                   draftLog, draftOutcome, draftInFlight, outsideForm>>

---------------------------------------------------------------------------
(* Timers of the event loop, and debounce (part_000:20-28) *)

DEBOUNCE_MS == 300

\* window.setTimeout: a fresh handle for a callback that is due after delay
FreshTimerId(table) ==
    CHOOSE i \in 1..(Cardinality(table) + 1) : \A t \in table : t.id # i

SetTimeout(table, id, cb, delay) ==
    table \cup {[id |-> id, due |-> now + delay, cb |-> cb]}

\* a debounce that forgets to cancel the pending callback
ClearTimeoutNoop(table, id) == table

\* window.clearTimeout: drops the callback with that handle, if it is pending
ClearTimeout(table, id) == {t \in table : t.id # id}

\* a timer callback runs as soon as it is due: no other event of the model
\* is handled at an instant at which a callback is due
Due(table) == {t \in table : t.due <= now}

EarliestDue(table) ==
    LET dues == {t.due : t \in table}
    IN  CHOOSE d \in dues : \A e \in dues : d <= e

\* the clock advances by at most TickMs and never past a pending callback
NextInstant(table) ==
    IF table # {} /\ EarliestDue(table) < now + TickMs
    THEN EarliestDue(table)
    ELSE now + TickMs

DbArgs == {"x", "y"}

\* part_000:22-26: one invocation of the function debounce returned
DebouncedCall(a) ==
    /\ Len(dbCalls) < MaxCalls
    /\ Due(dbTimers) = {}
    /\ LET cleared == ClearTimeout(dbTimers, timeoutId)
           id == FreshTimerId(cleared)
           n == Len(dbCalls) + 1
       IN  /\ dbTimers' = SetTimeout(cleared, id, [args |-> a, call |-> n], dbDelay)
           /\ timeoutId' = id
           /\ dbCalls' = Append(dbCalls, [args |-> a, at |-> now])
    /\ UNCHANGED <<now, dbDelay, dbExecs, outsideDebounce>>

\* part_000:24-26: the timer callback runs func.apply(this, args)
DebounceTimerFires ==
    /\ \E t \in Due(dbTimers) :
          /\ dbTimers' = dbTimers \ {t}
          /\ timeoutId' = IF timeoutId = t.id THEN 0 ELSE timeoutId
          /\ dbExecs' = Append(dbExecs, [args |-> t.cb.args, call |-> t.cb.call,
                                        at |-> now])
    /\ UNCHANGED <<now, dbDelay, dbCalls, outsideDebounce>>

---------------------------------------------------------------------------
(* Identity: useSupabaseAuth (part_000:33-67) *)

OwnerToken == "abc123"
OtherToken == "xyz"
\* what crypto.randomUUID() returns: another value at every call; the
\* effect calls it at most once per instance
UUIDs == <<"uuid-1", "uuid-2", "uuid-3", "uuid-4">>
FreshToken == UUIDs[mounts]

\* a resolver that never reads the stored token
GeneratedIdAlwaysFresh == FreshToken

\* part_000:48  storedUserId || crypto.randomUUID()
GeneratedId == IF localStorage # NULL THEN localStorage ELSE FreshToken

\* part_000:55  VERCEL_OWNER_ID && generatedId === VERCEL_OWNER_ID
OwnerCheck(id) == VERCEL_OWNER_ID # NULL /\ id = VERCEL_OWNER_ID

\* the state of App and of its hooks: React renders App again when a setter
\* changes one of these (a setter given the value it already holds does not)
AppState ==
    <<userId, isAuthReady, isAppOwner, loading, error, isManagerMode,
      currentProject, activeTag>>

\* part_000:206: every render of useProjects wraps addProject in a new
\* debounce closure, whose timeoutId is unset.  newList: setProjects was
\* given a new array.
WrapperAfter(newList, handle) ==
    IF newList \/ AppState' # AppState THEN 0 ELSE handle

SEED_DELAY_MS == 1500

\* part_000:674  !isAppOwner || loading || projects.length > 0, negated
SeedGuard == isAppOwner /\ ~loading /\ projects = <<>>

\* part_000:673-709: the seeding effect has addProject among its
\* dependencies, a new function at every render: every render of App runs
\* the cleanup (clearTimeout) and runs the effect again, which sets a new
\* timer if its guard holds.  Seeding runs that are followed: MaxSeedings.
SeedTimerAfter(newList) ==
    IF newList \/ AppState' # AppState
    THEN IF seeding /\ SeedGuard' /\ Len(seedLog) < MaxSeedings
         THEN now + SEED_DELAY_MS
         ELSE 0
    ELSE seedTimer

\* what a pass of React over App leaves behind, if the step causes one
RenderedAgain(newList, handle) ==
    /\ addTimeoutId' = WrapperAfter(newList, handle)
    /\ seedTimer' = SeedTimerAfter(newList)

SeedTimerDue == seedTimer # 0 /\ seedTimer <= now

\* timer callbacks run when due (see Due)
NoTimerDue == Due(timers) = {} /\ Due(dbTimers) = {} /\ ~SeedTimerDue

\* part_000:38-64: the effect of useSupabaseAuth, run once after mount
useSupabaseAuthEffect ==
    /\ mounted
    /\ ~authRan
    /\ authRan' = TRUE
    /\ isAuthReady' = TRUE
    /\ IF ~supabase
       THEN UNCHANGED <<localStorage, userId, isAppOwner>>
       ELSE /\ localStorage' = GeneratedId
            /\ userId' = GeneratedId
            /\ isAppOwner' = (isAppOwner \/ OwnerCheck(GeneratedId))
    /\ UNCHANGED <<configVars, lifeVars, everHeld, seedLog, projects, loading, error, channel, queries,
                   requests, timers, serviceVars, historyVars, appVars,
                   now, outsideRepo>>
    /\ RenderedAgain(FALSE, addTimeoutId)

---------------------------------------------------------------------------
(* The hosted data service: table 'projects' *)

\* ORDER BY created_at DESC; rows inserted at the same instant of the model's
\* clock keep their insertion order (the service's clock is finer)
Newer(r, q) ==
    r.created_at > q.created_at \/ (r.created_at = q.created_at /\ r.id > q.id)

RECURSIVE NewestFirst(_)
NewestFirst(S) ==
    IF S = {} THEN <<>>
    ELSE LET m == CHOOSE r \in S : \A q \in S \ {r} : Newer(r, q)
         IN  <<m>> \o NewestFirst(S \ {m})

\* part_000:94-98  select('*').eq('owner_id', userId).order('created_at', desc)
SelectProjects(rows, uid) == NewestFirst({r \in rows : r.owner_id = uid})

\* insert: the service assigns id and created_at
NewRow(payload, call) ==
    [id |-> nextId, created_at |-> now, owner_id |-> payload.owner_id,
     title |-> payload.title, description |-> payload.description,
     technologies |-> payload.technologies, call |-> call]

\* update: the columns named in the payload are overwritten
UpdateRow(r, payload) ==
    [k \in DOMAIN r |-> IF k \in DOMAIN payload THEN payload[k] ELSE r[k]]

\* a delete that removes nothing
DeleteNoRows(rows, id) == rows

\* delete().eq('id', id)
DeleteRows(rows, id) == {r \in rows : r.id # id}

\* the table after a request was carried out
Applied(req) ==
    CASE req.kind = "insert" -> store \cup {NewRow(req.payload, req.call)}
      [] req.kind = "update" ->
            {IF r.id = req.id THEN UpdateRow(r, req.payload) ELSE r : r \in store}
      [] req.kind = "delete" -> DeleteRows(store, req.id)

\* the request touches a row, so the service emits a change notification
Affects(req) == req.kind = "insert" \/ \E r \in store : r.id = req.id

---------------------------------------------------------------------------
(* The repository client: useProjects (part_000:75-207) *)

\* time passes for the stand-alone debounce wrapper
Tick ==
    /\ now < MaxTime
    /\ Due(dbTimers) = {}
    /\ now' = NextInstant(dbTimers)
    /\ UNCHANGED <<formVars, draftVars, dbVars, repoVars, appVars>>

\* a failure that stores no message
FetchErrorNone == NULL

FetchErrorMsg == "Failed to load projects. Ensure the 'projects' table is created in Supabase."
NotReadyMsg == "Error: Supabase not ready or User ID missing."
AddErrorMsg == "Failed to add project. Ensure table and RLS policies are correct."
UpdateErrorMsg == "Failed to save changes. Check RLS policies."
DeleteErrorMsg == "Failed to delete project. Check RLS policies."

MutationErrorMsg(kind) ==
    CASE kind = "insert" -> AddErrorMsg
      [] kind = "update" -> UpdateErrorMsg
      [] kind = "delete" -> DeleteErrorMsg

\* a guard that forgets the identity
HandleMissing(uid) == ~supabase

\* part_000:138, 162, 187  !supabase || !userId
NotReady(uid) == ~supabase \/ uid = NULL

\* part_000:91-98: fetchProjects up to its await
\* h: the channel whose callback fetches
QueryOf(h) ==
    [status |-> "sent", data |-> <<>>, fresh |-> FALSE, uid |-> h.uid,
     inst |-> h.inst, late |-> FALSE]

\* the channel of the current instance (part_000:118-127), before and
\* after the service confirmed it
Channel(joined) == [inst |-> mounts, uid |-> userId, joined |-> joined]

NewQuery == QueryOf(Channel(TRUE))

\* the instance a closure belongs to is still the active one
Alive(inst) == mounted /\ inst = mounts

\* an unmount that leaves the channel with the service
RemoveChannelNoop(subs, inst) == subs

\* part_000:131-133  supabase.removeChannel(channel)
RemoveChannel(subs, inst) == {h \in subs : h.inst # inst}

\* part_000:120-122: the queries that the callbacks of the confirmed
\* channels issue on a notification, oldest channel first
RECURSIVE Requeries(_)
Requeries(subs) ==
    IF {h \in subs : h.joined} = {}
    THEN <<>>
    ELSE LET h == CHOOSE x \in subs : x.joined /\ \A y \in subs : y.joined => x.inst <= y.inst
         IN  <<QueryOf(h)>> \o Requeries(subs \ {h})

\* a change of the table makes every answer taken before it stale
Stale(qs) == [i \in 1..Len(qs) |-> [qs[i] EXCEPT !.fresh = FALSE]]

RemoveAt(seq, i) == SubSeq(seq, 1, i - 1) \o SubSeq(seq, i + 1, Len(seq))

\* history: the queries issued before the i-th are late once the rows of
\* the i-th were put into the list
Overtaken(qs, i) ==
    [j \in 1..Len(qs) |-> IF j < i THEN [qs[j] EXCEPT !.late = TRUE] ELSE qs[j]]

\* part_000:102-106  { id: p.id, ...p, createdAt: new Date(p.created_at) }
MapProject(p) ==
    [k \in DOMAIN p \cup {"createdAt"} |->
        IF k = "createdAt" THEN p.created_at ELSE p[k]]

\* part_000:84-127: the effect of useProjects once the identity is known:
\* it builds the channel and asks to subscribe
useProjectsEffect ==
    /\ mounted
    /\ channel = "none"
    /\ isAuthReady /\ supabase /\ userId # NULL
    /\ NoTimerDue
    /\ channel' = "joining"
    /\ subscriptions' = subscriptions \cup {Channel(FALSE)}
    /\ UNCHANGED <<configVars, mounted, mounts, seedVars, authVars, projects, loading, error, queries,
                   requests, timers, addTimeoutId, serviceVars, historyVars,
                   appVars, now, outsideRepo>>

\* part_000:123-127: the subscribe callback gets SUBSCRIBED and fetches;
\* followed while fewer than n queries are in flight
ChannelSubscribedUpTo(n) ==
    /\ mounted
    /\ channel = "joining"
    /\ Channel(FALSE) \in subscriptions
    /\ NoTimerDue
    /\ Len(queries) < n
    /\ channel' = "subscribed"
    /\ subscriptions' = (subscriptions \ {Channel(FALSE)}) \cup {Channel(TRUE)}
    /\ queries' = Append(queries, NewQuery)
    /\ UNCHANGED <<configVars, mounted, mounts, seedVars, authVars, projects, loading, error, requests,
                   timers, addTimeoutId, serviceVars, historyVars, appVars,
                   now, outsideRepo>>

ChannelSubscribed == ChannelSubscribedUpTo(MaxInflight)

\* the service answers the i-th query in flight, with the rows or an error
FetchAnswered(i, ok) ==
    /\ queries[i].status = "sent"
    /\ queries' = [queries EXCEPT ![i] =
          IF ok
          THEN [@ EXCEPT !.status = "ok",
                         !.data = SelectProjects(store, queries[i].uid),
                         !.fresh = TRUE]
          ELSE [@ EXCEPT !.status = "error"]]
    /\ UNCHANGED <<envVars, authVars, projects, loading, error, channel,
                   requests, timers, addTimeoutId, serviceVars, historyVars,
                   appVars, now, outsideRepo>>

\* part_000:100-114: fetchProjects after its await, for the i-th query
FetchSettles(i) ==
    /\ queries[i].status # "sent"
    /\ NoTimerDue
    /\ LET q == queries[i] IN
       /\ IF ~Alive(q.inst)
          THEN UNCHANGED <<projects, error, cacheFresh, loading>>
          ELSE /\ IF q.status = "ok"
                  THEN /\ projects' = [n \in 1..Len(q.data) |-> MapProject(q.data[n])]
                       /\ error' = NULL
                       /\ cacheFresh' = q.fresh
                  ELSE /\ error' = FetchErrorMsg
                       /\ UNCHANGED <<projects, cacheFresh>>
               /\ loading' = FALSE
       /\ queries' = RemoveAt(IF Alive(q.inst) /\ q.status = "ok"
                               THEN Overtaken(queries, i)
                               ELSE queries, i)
       /\ everHeld' = (everHeld \/ projects' # <<>>)
       /\ UNCHANGED <<configVars, lifeVars, seedLog, authVars, channel, requests, timers,
                      serviceVars, createCalls, lastWrite, insertsIssued,
                      appVars, now, outsideRepo>>
       /\ RenderedAgain(Alive(q.inst) /\ q.status = "ok", addTimeoutId)

\* part_000:146-149  { ...newProject, owner_id: userId }
InsertPayload(newProject, uid) ==
    [k \in DOMAIN newProject \cup {"owner_id"} |->
        IF k = "owner_id" THEN uid ELSE newProject[k]]

\* an update that submits the fields as given
KeepId(fields) == fields

\* part_000:169-170  fieldsToUpdate = { ...updatedFields }; delete fieldsToUpdate.id
StripId(fields) == [k \in DOMAIN fields \ {"id"} |-> fields[k]]

\* part_000:206 with 22-27: a call of the addProject that useProjects returns,
\* the debounced wrapper of the latest render
DebouncedAdd(newProject) ==
    /\ Len(createCalls) < MaxCreates
    /\ LET cleared == ClearTimeout(timers, addTimeoutId)
           id == FreshTimerId(cleared)
           cb == [payload |-> newProject, uid |-> userId,
                  call |-> Len(createCalls) + 1, inst |-> mounts]
       IN  /\ timers' = SetTimeout(cleared, id, cb, DEBOUNCE_MS)
           /\ addTimeoutId' = id
    /\ createCalls' = Append(createCalls, [payload |-> newProject, at |-> now,
                                           uid |-> userId])

\* the same call as a function of the wrapper's state: w.timers the pending
\* callbacks, w.id the wrapper's timeoutId, w.calls the calls so far
AfterAdd(w, newProject) ==
    LET cleared == ClearTimeout(w.timers, w.id)
        id == FreshTimerId(cleared)
        cb == [payload |-> newProject, uid |-> userId,
               call |-> Len(w.calls) + 1, inst |-> mounts]
    IN  [timers |-> SetTimeout(cleared, id, cb, DEBOUNCE_MS),
         id |-> id,
         calls |-> Append(w.calls, [payload |-> newProject, at |-> now,
                                    uid |-> userId])]

\* part_000:676-698  initialProjectsData
initialProjectsData ==
    <<[title |-> "s1", description |-> <<"a">>, technologies |-> <<"a">>],
      [title |-> "s2", description |-> <<"a">>, technologies |-> <<"b">>],
      [title |-> "s3", description |-> <<"a">>, technologies |-> <<"a", ",", "b">>]>>

\* part_000:703  list.forEach(p => addProject(p)), from the k-th on
RECURSIVE AddEach(_, _, _)
AddEach(w, list, k) ==
    IF k > Len(list) THEN w ELSE AddEach(AfterAdd(w, list[k]), list, k + 1)

\* part_000:702-704: the seeding timer runs its callback.  No render took
\* place since the effect set it, so the addProject it closed over is the
\* wrapper of the latest render.
SeedTimerFires ==
    /\ SeedTimerDue
    /\ LET w == AddEach([timers |-> timers, id |-> addTimeoutId,
                         calls |-> createCalls], initialProjectsData, 1)
       IN  /\ timers' = w.timers
           /\ addTimeoutId' = w.id
           /\ createCalls' = w.calls
    /\ seedTimer' = 0
    /\ seedLog' = Append(seedLog, [owner |-> isAppOwner, loading |-> loading,
                                   empty |-> projects = <<>>, held |-> everHeld,
                                   error |-> error, at |-> now])
    /\ UNCHANGED <<configVars, lifeVars, everHeld, authVars, projects, loading,
                   error, channel, queries, requests, serviceVars, lastWrite,
                   cacheFresh, insertsIssued, appVars, now, outsideRepo>>

\* part_000:161-175: updateProject up to its await.  form: the call was made
\* by ProjectForm.handleSubmit, which awaits it
UpdateCall(id, updatedFields, form) ==
    IF NotReady(userId)
    THEN /\ error' = NotReadyMsg
         /\ requests' = requests
    ELSE /\ Cardinality(requests) < MaxPending
         /\ requests' = requests \cup
               {[kind |-> "update", id |-> id, payload |-> StripId(updatedFields),
                 call |-> 0, form |-> form, inst |-> mounts]}
         /\ error' = error

\* part_000:186-196: deleteProject up to its await
DeleteCall(id) ==
    IF NotReady(userId)
    THEN /\ error' = NotReadyMsg
         /\ requests' = requests
    ELSE /\ Cardinality(requests) < MaxPending
         /\ requests' = requests \cup
               {[kind |-> "delete", id |-> id, payload |-> <<>>,
                 call |-> 0, form |-> FALSE, inst |-> mounts]}
         /\ error' = error

\* a call of the returned addProject by a user of the hook
addProjectDebounced(newProject) ==
    /\ mounted
    /\ NoTimerDue
    /\ DebouncedAdd(newProject)
    /\ UNCHANGED <<envVars, authVars, projects, loading, error, channel,
                   queries, requests, serviceVars, lastWrite, cacheFresh,
                   insertsIssued, appVars, now, outsideRepo>>

\* part_000:24-26 then 137-150: the wrapper's timer runs addProject up to
\* its await
AddTimerFires ==
    /\ \E t \in Due(timers) :
          /\ timers' = timers \ {t}
          /\ IF NotReady(t.cb.uid)
             THEN /\ error' = IF Alive(t.cb.inst) THEN NotReadyMsg ELSE error
                  /\ UNCHANGED <<requests, insertsIssued>>
             ELSE /\ Cardinality(requests) < MaxPending
                  /\ requests' = requests \cup
                        {[kind |-> "insert", id |-> 0,
                          payload |-> InsertPayload(t.cb.payload, t.cb.uid),
                          call |-> t.cb.call, form |-> FALSE,
                          inst |-> t.cb.inst]}
                  /\ insertsIssued' = insertsIssued \cup
                        {[call |-> t.cb.call, owner_id |-> t.cb.uid]}
                  /\ error' = error
          /\ UNCHANGED <<configVars, lifeVars, everHeld, seedLog, authVars, projects, loading, channel,
                         queries, serviceVars, createCalls, lastWrite,
                         cacheFresh, appVars, now, outsideRepo>>
          /\ RenderedAgain(FALSE, IF addTimeoutId = t.id THEN 0 ELSE addTimeoutId)

\* a call of updateProject by a user of the hook
updateProject(id, updatedFields) ==
    /\ mounted
    /\ NoTimerDue
    /\ UpdateCall(id, updatedFields, FALSE)
    /\ UNCHANGED <<configVars, lifeVars, everHeld, seedLog, authVars, projects, loading, channel, queries,
                   timers, serviceVars, historyVars, appVars, now, outsideRepo>>
    /\ RenderedAgain(FALSE, addTimeoutId)

\* a call of deleteProject by a user of the hook
deleteProject(id) ==
    /\ mounted
    /\ NoTimerDue
    /\ DeleteCall(id)
    /\ UNCHANGED <<configVars, lifeVars, everHeld, seedLog, authVars, projects, loading, channel, queries,
                   timers, serviceVars, historyVars, appVars, now, outsideRepo>>
    /\ RenderedAgain(FALSE, addTimeoutId)

\* part_000:452-460  resetForm
ResetForm ==
    /\ currentProject' = <<>>
    /\ formId' = 0
    /\ title' = ""
    /\ description' = <<>>
    /\ technologies' = <<>>

\* the service carries out a request (or refuses it), notifies the
\* subscribers of the table, and the awaiting mutation resumes
\* (part_000:152-157, 177-182, 198-203; 120-122 for the notification;
\* 485 for a handleSubmit that awaited an update); followed while fewer than
\* n queries are in flight
ServiceApplyUpTo(req, ok, n) ==
    /\ req \in requests
    /\ requests' = requests \ {req}
    /\ IF ok
       THEN /\ store' = Applied(req)
            /\ nextId' = IF req.kind = "insert" THEN nextId + 1 ELSE nextId
            /\ error' = IF Alive(req.inst) THEN NULL ELSE error
            /\ IF Affects(req)
               THEN /\ lastWrite' = [kind |-> req.kind,
                                     id |-> IF req.kind = "insert" THEN nextId ELSE req.id,
                                     payload |-> req.payload,
                                     gone |-> store \ Applied(req)]
                    /\ cacheFresh' = FALSE
                    /\ Len(queries) + Len(Requeries(subscriptions)) <= n
                            \/ Requeries(subscriptions) = <<>>
                    /\ queries' = Stale(queries) \o Requeries(subscriptions)
               ELSE UNCHANGED <<lastWrite, cacheFresh, queries>>
       ELSE /\ error' = IF Alive(req.inst) THEN MutationErrorMsg(req.kind) ELSE error
            /\ UNCHANGED <<store, nextId, lastWrite, cacheFresh, queries>>
    /\ IF req.form /\ Alive(req.inst)
       THEN ResetForm
       ELSE UNCHANGED <<currentProject, formId, title, description, technologies>>
    /\ UNCHANGED <<configVars, lifeVars, everHeld, seedLog, authVars, projects, loading, channel, timers,
                   createCalls, insertsIssued, isManagerMode, submissionError,
                   lastToggle, filterVars, now, draftVars, dbVars>>
    /\ RenderedAgain(FALSE, addTimeoutId)

ServiceApply(req, ok) == ServiceApplyUpTo(req, ok, MaxInflight)

\* time passes until the next callback of the application is due; between
\* two callbacks the application's events are taken at one instant each
AwaitTimer ==
    /\ timers # {} \/ seedTimer # 0
    /\ NoTimerDue
    /\ now' = IF seedTimer # 0 /\ (timers = {} \/ seedTimer < EarliestDue(timers))
              THEN seedTimer
              ELSE EarliestDue(timers)
    /\ UNCHANGED <<formVars, draftVars, dbVars, repoVars, appVars>>

---------------------------------------------------------------------------
(* App (part_000:608-640, 857-924) and ProjectForm (part_000:429-489) *)

RequiredMsg == "Title, Description, and Technologies are required."
SecurityMsg == "SECURITY ERROR: You must be authenticated as the app owner to add/edit projects."

\* part_000:631
canManage == isAuthReady /\ isAppOwner

\* part_000:788: the manager-mode button
ToggleButtonRendered == isAuthReady

\* part_000:862: ProfileManagementPanel and ProjectForm
ManagerPanelsRendered == isManagerMode /\ canManage

\* part_000:880: the access-denied box
AccessDeniedRendered == isManagerMode /\ ~canManage

\* part_000:914-921 with 234: the edit and delete buttons of the cards
CardButtonsRendered == projects # <<>> /\ isManagerMode

\* a toggle that forgets the owner check
ToggleAllowedAlways == TRUE

\* part_000:634  if (canManage)
ToggleAllowed == canManage

\* part_000:633-640.  Switching manager mode mounts or unmounts ProjectForm,
\* whose fields start empty (part_000:433-439).
handleToggleManager ==
    /\ ToggleButtonRendered
    /\ NoTimerDue
    /\ IF ToggleAllowed
       THEN /\ isManagerMode' = ~isManagerMode
            /\ lastToggle' = [kind |-> "switched", from |-> isManagerMode]
            /\ submissionError' = NULL
            /\ ResetForm
       ELSE /\ lastToggle' = [kind |-> "refused", from |-> isManagerMode]
            /\ UNCHANGED <<isManagerMode, submissionError, currentProject,
                           formId, title, description, technologies>>
    /\ UNCHANGED <<configVars, lifeVars, everHeld, seedLog, authVars, projects, loading, error, channel,
                   queries, requests, timers, serviceVars, historyVars,
                   filterVars, now, draftVars, dbVars>>
    /\ RenderedAgain(FALSE, addTimeoutId)

\* part_000:650-658  allTags: the technologies of every cached project are
\* split on commas, the trimmed non-empty pieces collected in a Set and sorted
RECURSIVE SplitOn(_, _)
SplitOn(s, sep) ==
    IF \A i \in 1..Len(s) : s[i] # sep
    THEN <<s>>
    ELSE LET i == CHOOSE j \in 1..Len(s) :
                     s[j] = sep /\ \A k \in 1..(j - 1) : s[k] # sep
         IN  <<SubSeq(s, 1, i - 1)>> \o SplitOn(SubSeq(s, i + 1, Len(s)), sep)

\* tokens that keep their blanks
TagsOfUntrimmed(tech) ==
    LET parts == SplitOn(tech, ",")
    IN  {parts[i] : i \in 1..Len(parts)} \ {<<>>}

TagsOf(tech) ==
    LET parts == SplitOn(tech, ",")
    IN  {Trim(parts[i]) : i \in 1..Len(parts)} \ {<<>>}

\* UTF-16 code units of the characters the model's texts are made of
CharCode(c) ==
    CASE c = " " -> 32 [] c = "," -> 44 [] c = "A" -> 65
      [] c = "a" -> 97 [] c = "b" -> 98

\* Array.prototype.sort without a comparator: by code units
RECURSIVE LexLess(_, _)
LexLess(s, t) ==
    IF s = <<>> THEN t # <<>>
    ELSE IF t = <<>> THEN FALSE
    ELSE IF Head(s) # Head(t) THEN CharCode(Head(s)) < CharCode(Head(t))
    ELSE LexLess(Tail(s), Tail(t))

RECURSIVE SortTags(_)
SortTags(S) ==
    IF S = {} THEN <<>>
    ELSE LET m == CHOOSE x \in S : \A y \in S \ {x} : LexLess(x, y)
         IN  <<m>> \o SortTags(S \ {m})

TagsOfList(list) == UNION {TagsOf(list[i].technologies) : i \in 1..Len(list)}

TagListOf(list) == SortTags(TagsOfList(list))

allTags == TagListOf(projects)

\* String.prototype.toLowerCase
ToLowerCase(s) == [i \in 1..Len(s) |-> IF s[i] = "A" THEN "a" ELSE s[i]]

\* String.prototype.includes
Includes(s, part) ==
    \E i \in 0..(Len(s) - Len(part)) : SubSeq(s, i + 1, i + Len(part)) = part

\* Array.prototype.filter with the test of part_000:666-668
RECURSIVE FilterByTag(_, _)
FilterByTag(list, tag) ==
    IF list = <<>> THEN <<>>
    ELSE (IF Includes(ToLowerCase(Head(list).technologies), ToLowerCase(tag))
          THEN <<Head(list)>> ELSE <<>>) \o FilterByTag(Tail(list), tag)

\* part_000:661-669
filteredProjects ==
    IF activeTag = NoTag THEN projects ELSE FilterByTag(projects, activeTag)

\* part_000:898-904: the filter's buttons are on screen
TagFilterRendered == isAuthReady /\ ~loading /\ error = NULL /\ projects # <<>>

\* a click handler that always selects
NextActiveTagSticky(tag) == tag

\* part_000:574  activeTag === tag ? null : tag
NextActiveTag(tag) == IF activeTag = tag THEN NoTag ELSE tag

\* the last two clicks, each with the tag that was active and the list that
\* was displayed before it
Clicked(tag) ==
    LET c == [tag |-> tag, was |-> activeTag, shown |-> filteredProjects]
    IN  IF tagClicks = <<>> THEN <<c>> ELSE <<tagClicks[Len(tagClicks)], c>>

\* part_000:572-575, 584: a click on the button of the k-th tag
handleTagClick(k) ==
    /\ TagFilterRendered
    /\ NoTimerDue
    /\ k \in 1..Len(allTags)
    /\ activeTag' = NextActiveTag(allTags[k])
    /\ tagClicks' = Clicked(allTags[k])
    /\ UNCHANGED <<configVars, lifeVars, everHeld, seedLog, authVars, projects, loading, error, channel,
                   queries, requests, timers, serviceVars, historyVars,
                   isManagerMode, currentProject, formId, submissionError,
                   lastToggle, now, formVars, draftVars, dbVars>>
    /\ RenderedAgain(FALSE, addTimeoutId)

\* part_000:594-596: a click on Clear Filter
onClearFilterClick ==
    /\ TagFilterRendered
    /\ NoTimerDue
    /\ activeTag # NoTag
    /\ activeTag' = NoTag
    /\ tagClicks' = Clicked(NoTag)
    /\ UNCHANGED <<configVars, lifeVars, everHeld, seedLog, authVars, projects, loading, error, channel,
                   queries, requests, timers, serviceVars, historyVars,
                   isManagerMode, currentProject, formId, submissionError,
                   lastToggle, now, formVars, draftVars, dbVars>>
    /\ RenderedAgain(FALSE, addTimeoutId)

Titles == {"", "t1"}
TechChoices == {<<>>, <<"a">>}

\* part_000:513  onChange of the title input
onChangeTitle(t) ==
    /\ ManagerPanelsRendered
    /\ title' = t
    /\ UNCHANGED <<technologies, description, draftVars, outsideForm>>

\* part_000:535  onChange of the technologies input
onChangeTechnologies(k) ==
    /\ ManagerPanelsRendered
    /\ technologies' = k
    /\ UNCHANGED <<title, description, draftVars, outsideForm>>

DescChoices == {<<>>, <<"a">>}

\* part_000:520  onChange of the description textarea
onChangeDescription(d) ==
    /\ ManagerPanelsRendered
    /\ description' = d
    /\ UNCHANGED <<title, technologies, draftVars, outsideForm>>

\* part_000:238 with 442-450: the edit button of the i-th card
onEditClick(i) ==
    /\ CardButtonsRendered
    /\ NoTimerDue
    /\ i \in 1..Len(filteredProjects)
    /\ currentProject' = <<filteredProjects[i]>>
    /\ IF ManagerPanelsRendered
       THEN /\ formId' = filteredProjects[i].id
            /\ title' = filteredProjects[i].title
            /\ description' = filteredProjects[i].description
            /\ technologies' = filteredProjects[i].technologies
            /\ submissionError' = NULL
       ELSE UNCHANGED <<formId, title, description, technologies, submissionError>>
    /\ UNCHANGED <<configVars, lifeVars, everHeld, seedLog, authVars, projects, loading, error, channel,
                   queries, requests, timers, serviceVars, historyVars,
                   isManagerMode, lastToggle, filterVars, now, draftVars, dbVars>>
    /\ RenderedAgain(FALSE, addTimeoutId)

\* part_000:248: the delete button of the i-th card displayed (part_000:914)
onDeleteClick(i) ==
    /\ CardButtonsRendered
    /\ i \in 1..Len(filteredProjects)
    /\ deleteProject(filteredProjects[i].id)

\* part_000:476
ProjectData == [title |-> title, description |-> description,
                technologies |-> technologies]

\* part_000:462-489.  The debounced addProject returns at once, so the await
\* at 482 resumes in the same turn and resetForm runs; an updateProject that
\* sent its request resumes when the request settles (ServiceApply).
handleSubmit ==
    /\ ManagerPanelsRendered
    /\ NoTimerDue
    /\ UNCHANGED <<configVars, lifeVars, everHeld, seedLog, authVars, projects, loading, channel, queries,
                   serviceVars, lastWrite, cacheFresh, insertsIssued,
                   isManagerMode, lastToggle, filterVars, now, draftVars, dbVars>>
    /\ IF title = "" \/ ~Truthy(description) \/ ~Truthy(technologies)
       THEN /\ submissionError' = RequiredMsg
            /\ UNCHANGED <<formVars, currentProject, formId, error, requests,
                           timers, addTimeoutId, createCalls, seedTimer>>
       ELSE IF ~isAppOwner
       THEN /\ submissionError' = SecurityMsg
            /\ UNCHANGED <<formVars, currentProject, formId, error, requests,
                           timers, addTimeoutId, createCalls, seedTimer>>
       ELSE IF currentProject # <<>> /\ formId # 0
       THEN /\ submissionError' = NULL
            /\ UpdateCall(formId, ProjectData, TRUE)
            /\ IF NotReady(userId)
               THEN ResetForm
               ELSE UNCHANGED <<formVars, currentProject, formId>>
            /\ UNCHANGED <<timers, createCalls>>
            /\ RenderedAgain(FALSE, addTimeoutId)
       ELSE /\ submissionError' = NULL
            /\ DebouncedAdd(ProjectData)
            /\ ResetForm
            /\ UNCHANGED <<error, requests, seedTimer>>

---------------------------------------------------------------------------
(* Initial states *)

---------------------------------------------------------------------------
(* The life of the page *)

\* the page is closed or reloaded: React unmounts App and runs the cleanup
\* of the effect of useProjects (part_000:131-133) and of the seeding effect
\* (part_000:706).  The timers of the debounce wrappers are not cleared and
\* the requests in flight go on.
Unmount ==
    /\ mounted
    /\ NoTimerDue
    /\ mounted' = FALSE
    /\ subscriptions' = RemoveChannel(subscriptions, mounts)
    /\ seedTimer' = 0
    /\ UNCHANGED <<configVars, mounts, everHeld, seedLog, authVars, hookVars, serviceVars,
                   historyVars, appVars, now, outsideRepo>>

\* App is mounted again: every useState starts from its initial value
\* (part_000:34-36, 76-78, 298-299, 433-439, 609-611); the browser's storage
\* and the table are as they were left
Mount ==
    /\ ~mounted
    /\ mounts < MaxMounts
    /\ mounted' = TRUE
    /\ mounts' = mounts + 1
    /\ authRan' = FALSE
    /\ userId' = NULL
    /\ isAuthReady' = FALSE
    /\ isAppOwner' = FALSE
    /\ projects' = <<>>
    /\ loading' = TRUE
    /\ error' = NULL
    /\ channel' = "none"
    /\ addTimeoutId' = 0
    /\ cacheFresh' = FALSE
    /\ isManagerMode' = FALSE
    /\ currentProject' = <<>>
    /\ formId' = 0
    /\ submissionError' = NULL
    /\ lastToggle' = [kind |-> "none", from |-> FALSE]
    /\ activeTag' = NoTag
    /\ tagClicks' = <<>>
    /\ title' = ""
    /\ technologies' = <<>>
    /\ description' = <<>>
    /\ isLoading' = FALSE
    /\ draftError' = NULL
    /\ draftPc' = "idle"
    /\ attempt' = 0
    /\ draftInFlight' = 0
    /\ seedTimer' = 0
    /\ everHeld' = FALSE
    /\ seedLog' = <<>>
    /\ UNCHANGED <<configVars, subscriptions, localStorage, queries, requests,
                   timers, serviceVars, createCalls, lastWrite, insertsIssued,
                   draftQuery, draftRequests, draftWaits, draftLog,
                   draftOutcome, now, dbVars>>

DbDelays == {200, DEBOUNCE_MS}

InitClock ==
    /\ now = 0
    /\ dbDelay \in DbDelays
    /\ dbTimers = {}
    /\ timeoutId = 0
    /\ dbCalls = <<>>
    /\ dbExecs = <<>>

\* ProjectForm and ProjectDraftingTool as mounted (part_000:298-299, 433-439)
InitForm ==
    /\ title = ""
    /\ technologies = <<>>
    /\ description = <<>>
    /\ isLoading = FALSE
    /\ draftError = NULL
    /\ draftPc = "idle"
    /\ attempt = 0
    /\ draftQuery = [title |-> "", technologies |-> <<>>]
    /\ draftRequests = 0
    /\ draftWaits = <<>>
    /\ draftLog = <<>>
    /\ draftOutcome = "none"
    /\ draftInFlight = 0

\* the hooks before anything ran (part_000:34-36, 76-78), and the table
InitRepoOver(rows) ==
    /\ seedTimer = 0
    /\ everHeld = FALSE
    /\ seedLog = <<>>
    /\ mounted = TRUE
    /\ mounts = 1
    /\ subscriptions = {}
    /\ authRan = FALSE
    /\ userId = NULL
    /\ isAuthReady = FALSE
    /\ isAppOwner = FALSE
    /\ projects = <<>>
    /\ loading = TRUE
    /\ error = NULL
    /\ channel = "none"
    /\ queries = <<>>
    /\ requests = {}
    /\ timers = {}
    /\ addTimeoutId = 0
    /\ store = rows
    /\ nextId = Cardinality(rows) + 1
    /\ createCalls = <<>>
    /\ lastWrite = [kind |-> "none", id |-> 0, payload |-> <<>>, gone |-> {}]
    /\ cacheFresh = FALSE
    /\ insertsIssued = {}

\* the same over an empty table
InitRepo == InitRepoOver({})

\* part_000:609-611
InitApp ==
    /\ isManagerMode = FALSE
    /\ currentProject = <<>>
    /\ formId = 0
    /\ submissionError = NULL
    /\ lastToggle = [kind |-> "none", from |-> FALSE]
    /\ activeTag = NoTag
    /\ tagClicks = <<>>

\* the owner's browser with manager mode on and a synced list of the rows
\* the table holds
InitOwnerSynced(rows) ==
    /\ seeding = FALSE
    /\ seedTimer = 0
    /\ everHeld = (rows # {})
    /\ seedLog = <<>>
    /\ mounted = TRUE
    /\ mounts = 1
    /\ subscriptions = {[inst |-> 1, uid |-> OwnerToken, joined |-> TRUE]}
    /\ supabase = TRUE
    /\ VERCEL_OWNER_ID = OwnerToken
    /\ localStorage = OwnerToken
    /\ authRan = TRUE
    /\ userId = OwnerToken
    /\ isAuthReady = TRUE
    /\ isAppOwner = TRUE
    /\ projects = [n \in 1..Cardinality(rows) |->
                      MapProject(SelectProjects(rows, OwnerToken)[n])]
    /\ loading = FALSE
    /\ error = NULL
    /\ channel = "subscribed"
    /\ queries = <<>>
    /\ requests = {}
    /\ timers = {}
    /\ addTimeoutId = 0
    /\ store = rows
    /\ nextId = Cardinality(rows) + 1
    /\ createCalls = <<>>
    /\ lastWrite = [kind |-> "none", id |-> 0, payload |-> <<>>, gone |-> {}]
    /\ cacheFresh = TRUE
    /\ insertsIssued = {}
    /\ isManagerMode = TRUE
    /\ currentProject = <<>>
    /\ formId = 0
    /\ submissionError = NULL
    /\ lastToggle = [kind |-> "switched", from |-> FALSE]
    /\ activeTag = NoTag
    /\ tagClicks = <<>>

\* the same with an empty list: the state in which ProjectForm and its
\* drafting tool are on screen
InitOwnerManaging == InitOwnerSynced({})

---------------------------------------------------------------------------
(* debounce alone *)

InitDebounce ==
    /\ InitClock
    /\ InitForm
    /\ InitOwnerManaging

NextDebounce ==
    \/ \E a \in DbArgs : DebouncedCall(a)
    \/ DebounceTimerFires
    \/ Tick

SpecDebounce == InitDebounce /\ [][NextDebounce]_vars

---------------------------------------------------------------------------
(* The drafting tool in a mounted ProjectForm *)

InitDraft ==
    /\ InitClock
    /\ dbDelay = DEBOUNCE_MS
    /\ InitForm
    /\ InitOwnerManaging

NextDraft ==
    \/ generateProjectDescription
    \/ onClickGenerate
    \/ \E r \in DraftResponses : DraftFetchSettles(r)
    \/ DraftBackoffElapses
    \/ \E t \in Titles : onChangeTitle(t)
    \/ \E k \in TechChoices : onChangeTechnologies(k)

SpecDraft == InitDraft /\ [][NextDraft]_vars

---------------------------------------------------------------------------
(* The tag filter over a loaded list *)

TagChars == {"a", "A", " ", ","}

\* the technology fields of the loaded projects
TagTexts == UNION {[1..k -> TagChars] : k \in 0..MaxTagLen}

\* the i-th row of a loaded table
TagRow(i, tech) ==
    [id |-> i, created_at |-> i, owner_id |-> OwnerToken, title |-> "t1",
     description |-> <<"a">>, technologies |-> tech, call |-> 0]

TagTables ==
    UNION {{{TagRow(i, f[i]) : i \in 1..n} : f \in [1..n -> TagTexts]} :
              n \in 0..MaxListLen}

InitTags ==
    /\ InitClock
    /\ dbDelay = DEBOUNCE_MS
    /\ InitForm
    /\ \E rows \in TagTables : InitOwnerSynced(rows)

NextTags ==
    \/ \E k \in 1..Len(allTags) : handleTagClick(k)
    \/ onClearFilterClick

SpecTags == InitTags /\ [][NextTags]_vars

---------------------------------------------------------------------------
(* The repository client, driven through the functions useProjects returns *)

Ids == 1..MaxCreates

ProjectInputs ==
    {[title |-> "t1", description |-> <<"a">>, technologies |-> <<"a">>],
     [title |-> "t2", description |-> <<"a">>,
      technologies |-> <<"a", ",", " ", "b">>]}

\* fields as a caller may pass them to updateProject: with or without the
\* identifier of a project (part_000:168)
WithId(fields, id) ==
    [k \in DOMAIN fields \cup {"id"} |-> IF k = "id" THEN id ELSE fields[k]]

EditedFields ==
    [title |-> "t3", description |-> <<"a">>, technologies |-> <<"b">>]

UpdateInputs == {EditedFields} \cup {WithId(EditedFields, id) : id \in Ids}

Init ==
    /\ InitClock
    /\ dbDelay = DEBOUNCE_MS
    /\ InitForm
    /\ InitApp
    /\ InitRepo
    /\ supabase \in BOOLEAN
    /\ seeding = FALSE
    /\ VERCEL_OWNER_ID = OwnerToken
    /\ localStorage \in {NULL, OwnerToken}

Next ==
    \/ useSupabaseAuthEffect
    \/ useProjectsEffect
    \/ ChannelSubscribed
    \/ \E i \in 1..Len(queries), ok \in BOOLEAN : FetchAnswered(i, ok)
    \/ \E i \in 1..Len(queries) : FetchSettles(i)
    \/ \E p \in ProjectInputs : addProjectDebounced(p)
    \/ AddTimerFires
    \/ \E id \in Ids, f \in UpdateInputs : updateProject(id, f)
    \/ \E id \in Ids : deleteProject(id)
    \/ \E req \in requests, ok \in BOOLEAN : ServiceApply(req, ok)
    \/ AwaitTimer

Spec == Init /\ [][Next]_vars

---------------------------------------------------------------------------
(* The repository client over a table that holds another owner's project *)

ForeignRow ==
    [id |-> 1, created_at |-> 0, owner_id |-> OtherToken, title |-> "t1",
     description |-> <<"a">>, technologies |-> <<"a">>, call |-> 0]

InitShared ==
    /\ InitClock
    /\ dbDelay = DEBOUNCE_MS
    /\ InitForm
    /\ InitApp
    /\ InitRepoOver({ForeignRow})
    /\ supabase = TRUE
    /\ seeding = FALSE
    /\ VERCEL_OWNER_ID = OwnerToken
    /\ localStorage = OwnerToken

SpecShared == InitShared /\ [][Next]_vars

---------------------------------------------------------------------------
(* The owner's repository client with overlapping list queries, all of *)
(* which the service answers with rows                                  *)

SyncProject ==
    [title |-> "t1", description |-> <<"a">>, technologies |-> <<"a">>]

InitSync ==
    /\ InitClock
    /\ dbDelay = DEBOUNCE_MS
    /\ InitForm
    /\ InitApp
    /\ InitRepo
    /\ supabase = TRUE
    /\ seeding = FALSE
    /\ VERCEL_OWNER_ID = OwnerToken
    /\ localStorage = OwnerToken

NextSync ==
    \/ useSupabaseAuthEffect
    \/ useProjectsEffect
    \/ ChannelSubscribedUpTo(MaxOverlap)
    \/ \E i \in 1..Len(queries) : FetchAnswered(i, TRUE)
    \/ \E i \in 1..Len(queries) : FetchSettles(i)
    \/ addProjectDebounced(SyncProject)
    \/ AddTimerFires
    \/ \E id \in Ids : deleteProject(id)
    \/ \E req \in requests, ok \in BOOLEAN : ServiceApplyUpTo(req, ok, MaxOverlap)
    \/ AwaitTimer

SpecSync == InitSync /\ [][NextSync]_vars

---------------------------------------------------------------------------
(* The page closed and opened again over a table that holds two projects *)

LifeRows == {TagRow(1, <<"a">>), TagRow(2, <<"b">>)}

InitLife ==
    /\ InitClock
    /\ dbDelay = DEBOUNCE_MS
    /\ InitForm
    /\ InitApp
    /\ InitRepoOver(LifeRows)
    /\ supabase \in BOOLEAN
    /\ seeding = FALSE
    /\ VERCEL_OWNER_ID = OwnerToken
    /\ localStorage \in {NULL, OwnerToken}

NextLife ==
    \/ useSupabaseAuthEffect
    \/ useProjectsEffect
    \/ ChannelSubscribedUpTo(MaxOverlap)
    \/ \E i \in 1..Len(queries), ok \in BOOLEAN : FetchAnswered(i, ok)
    \/ \E i \in 1..Len(queries) : FetchSettles(i)
    \/ \E id \in Ids : deleteProject(id)
    \/ \E req \in requests, ok \in BOOLEAN : ServiceApplyUpTo(req, ok, MaxOverlap)
    \/ Unmount
    \/ Mount

SpecLife == InitLife /\ [][NextLife]_vars

---------------------------------------------------------------------------
(* App with its seeding effect over an empty table *)

InitSeed ==
    /\ InitClock
    /\ dbDelay = DEBOUNCE_MS
    /\ InitForm
    /\ InitApp
    /\ InitRepo
    /\ supabase = TRUE
    /\ seeding = TRUE
    /\ VERCEL_OWNER_ID = OwnerToken
    /\ localStorage \in {OwnerToken, OtherToken}

NextSeed ==
    \/ useSupabaseAuthEffect
    \/ useProjectsEffect
    \/ ChannelSubscribed
    \/ \E i \in 1..Len(queries), ok \in BOOLEAN : FetchAnswered(i, ok)
    \/ \E i \in 1..Len(queries) : FetchSettles(i)
    \/ SeedTimerFires
    \/ AddTimerFires
    \/ \E i \in 1..Len(projects) : deleteProject(projects[i].id)
    \/ \E req \in requests, ok \in BOOLEAN : ServiceApply(req, ok)
    \/ AwaitTimer

SpecSeed == InitSeed /\ [][NextSeed]_vars

---------------------------------------------------------------------------
(* The tag filter while the owner edits and deletes the projects listed; *)
(* the data service carries out every request                            *)

InitFilter ==
    /\ InitClock
    /\ dbDelay = DEBOUNCE_MS
    /\ InitForm
    /\ InitOwnerSynced(LifeRows)

NextFilter ==
    \/ \E k \in 1..Len(allTags) : handleTagClick(k)
    \/ onClearFilterClick
    \/ \E i \in 1..Len(filteredProjects) : onEditClick(i)
    \/ \E i \in 1..Len(filteredProjects) : onDeleteClick(i)
    \/ \E k \in TechChoices : onChangeTechnologies(k)
    \/ handleSubmit
    \/ \E req \in requests : ServiceApply(req, TRUE)
    \/ \E i \in 1..Len(queries) : FetchAnswered(i, TRUE)
    \/ \E i \in 1..Len(queries) : FetchSettles(i)

SpecFilter == InitFilter /\ [][NextFilter]_vars

---------------------------------------------------------------------------
(* The application, driven through its user interface *)

InitUI ==
    /\ InitClock
    /\ dbDelay = DEBOUNCE_MS
    /\ InitForm
    /\ InitApp
    /\ InitRepo
    /\ supabase \in BOOLEAN
    /\ seeding = FALSE
    /\ VERCEL_OWNER_ID \in {NULL, OwnerToken}
    /\ localStorage \in {NULL, OwnerToken, OtherToken}

NextUI ==
    \/ useSupabaseAuthEffect
    \/ useProjectsEffect
    \/ ChannelSubscribed
    \/ \E i \in 1..Len(queries), ok \in BOOLEAN : FetchAnswered(i, ok)
    \/ \E i \in 1..Len(queries) : FetchSettles(i)
    \/ AddTimerFires
    \/ \E req \in requests, ok \in BOOLEAN : ServiceApply(req, ok)
    \/ AwaitTimer
    \/ handleToggleManager
    \/ \E t \in Titles : onChangeTitle(t)
    \/ \E k \in TechChoices : onChangeTechnologies(k)
    \/ \E d \in DescChoices : onChangeDescription(d)
    \/ \E i \in 1..Len(projects) : onEditClick(i)
    \/ \E i \in 1..Len(projects) : onDeleteClick(i)
    \/ handleSubmit

SpecApp == InitUI /\ [][NextUI]_vars

---------------------------------------------------------------------------
(* Properties of debounce *)

\* the calls that end a burst: the last call so far, and every call that the
\* next one does not follow by less than delay
BurstEnds ==
    {i \in 1..Len(dbCalls) :
        i = Len(dbCalls) \/ dbCalls[i + 1].at - dbCalls[i].at >= dbDelay}

\* the j-th smallest element of a set of numbers
RECURSIVE Nth(_, _)
Nth(S, j) ==
    LET m == CHOOSE x \in S : \A y \in S : x <= y
    IN  IF j = 1 THEN m ELSE Nth(S \ {m}, j - 1)

\* C4: of every burst of invocations that follow one another by less than
\* delay, func is executed exactly once, with the arguments of the last
\* invocation of the burst and not before delay has elapsed since it; no
\* other invocation of the burst executes func.
C4_DebounceRunsLastCallOnce ==
    /\ Len(dbExecs) <= Cardinality(BurstEnds)
    /\ Len(dbExecs) >= Cardinality(BurstEnds) - 1
    /\ \A j \in 1..Len(dbExecs) :
          LET i == Nth(BurstEnds, j) IN
          /\ dbExecs[j].call = i
          /\ dbExecs[j].args = dbCalls[i].args
          /\ dbExecs[j].at >= dbCalls[i].at + dbDelay
          /\ \A k \in 1..Len(dbCalls) :
                (dbCalls[k].at > dbCalls[i].at) => (dbCalls[k].at >= dbExecs[j].at)
    /\ (dbCalls # <<>> /\ now >= dbCalls[Len(dbCalls)].at + dbDelay /\ Due(dbTimers) = {})
          => Len(dbExecs) = Cardinality(BurstEnds)

\* a burst of two calls with different arguments was answered by one
\* execution, and a later call by another
C4_Witness ==
    /\ Len(dbCalls) = 3
    /\ dbCalls[1].args # dbCalls[2].args
    /\ dbCalls[2].at > dbCalls[1].at
    /\ dbCalls[2].at - dbCalls[1].at < dbDelay
    /\ Len(dbExecs) = 2
    /\ dbExecs[1].call = 2

---------------------------------------------------------------------------
(* Properties of the drafting tool *)

\* a failed attempt, in the words of the contract: a transport error, a
\* non-OK status, or no (or an empty) first-candidate text
AttemptFailed(r) ==
    \/ r.kind \in {"transport", "status"}
    \/ ~r.hasText
    \/ r.text = <<>>

\* d is s without its leading and trailing whitespace
IsTrimOf(d, s) ==
    /\ d # <<>> => (d[1] # " " /\ d[Len(d)] # " ")
    /\ \E i \in 0..Len(s) :
          /\ i + Len(d) <= Len(s)
          /\ \A n \in 1..Len(s) :
                IF n > i /\ n <= i + Len(d) THEN s[n] = d[n - i] ELSE s[n] = " "

\* C1: an invocation with both inputs present sends at most 3 requests; the
\* k-th failed attempt (k < 3) is followed by a wait of 1000 * 2^(k-1) ms and
\* then attempt k+1; after the 3rd failed attempt the final error is set, the
\* loading flag is cleared and the invocation has ended with exactly 3
\* requests and the waits 1000, 2000.
C1_BoundedRetryWithBackoff ==
    /\ draftRequests <= 3
    /\ Len(draftWaits) <= 2
    /\ \A k \in 1..Len(draftWaits) : draftWaits[k] = 1000 * (2 ^ (k - 1))
    /\ draftPc = "fetching" =>
          /\ draftRequests = attempt
          /\ Len(draftLog) = attempt - 1
          /\ Len(draftWaits) = attempt - 1
          /\ \A k \in 1..Len(draftLog) : AttemptFailed(draftLog[k])
    /\ draftPc = "waiting" =>
          /\ attempt < 3
          /\ draftRequests = attempt
          /\ Len(draftLog) = attempt
          /\ Len(draftWaits) = attempt
          /\ \A k \in 1..Len(draftLog) : AttemptFailed(draftLog[k])
    /\ (Len(draftLog) = 3 /\ AttemptFailed(draftLog[3])) =>
          /\ draftOutcome = "exhausted"
    /\ draftOutcome = "exhausted" =>
          /\ draftPc = "idle"
          /\ draftRequests = 3
          /\ draftWaits = <<1000, 2000>>
          /\ Len(draftLog) = 3
          /\ \A k \in 1..3 : AttemptFailed(draftLog[k])
          /\ draftError = ExhaustedMsg
          /\ ~isLoading

\* the third attempt has failed and the invocation has ended
C1_Witness ==
    /\ draftOutcome = "exhausted"
    /\ draftPc = "idle"
    /\ Len(draftLog) = 3

\* C2: when attempt k is the first to return an OK response with non-empty
\* candidate text, the description is that response's trimmed text, exactly k
\* requests were sent, no error is shown and the loading flag is false.
C2_FirstUsableResponseWins ==
    draftOutcome = "success" =>
        LET k == Len(draftLog) IN
        /\ k \in 1..3
        /\ ~AttemptFailed(draftLog[k])
        /\ \A j \in 1..(k - 1) : AttemptFailed(draftLog[j])
        /\ IsTrimOf(description, draftLog[k].text)
        /\ draftRequests = k
        /\ draftError = NULL
        /\ ~isLoading
        /\ draftPc = "idle"

\* two failures, then a third response whose text needed trimming
C2_Witness ==
    /\ draftOutcome = "success"
    /\ Len(draftLog) = 3
    /\ description # draftLog[3].text
    /\ description # <<>>

\* C3: a drafting call with an empty title or an empty technology list sets
\* the validation error at once, sends no request and leaves the loading
\* flag false.
C3_MissingInputsShortCircuit ==
    /\ (draftOutcome # "none"
            /\ (draftQuery.title = "" \/ draftQuery.technologies = <<>>)) =>
          /\ draftOutcome = "invalid"
          /\ draftError = ValidationMsg
          /\ draftRequests = 0
          /\ draftLog = <<>>
          /\ draftWaits = <<>>
          /\ ~isLoading
          /\ draftPc = "idle"
    /\ (draftRequests > 0 \/ isLoading) =>
          (draftQuery.title # "" /\ draftQuery.technologies # <<>>)

\* a call was refused for its empty technology list
C3_Witness ==
    /\ draftOutcome = "invalid"
    /\ draftError = ValidationMsg
    /\ draftQuery.title # ""
    /\ draftQuery.technologies = <<>>
    /\ ~isLoading

---------------------------------------------------------------------------
(* Properties of the repository client *)

\* the calls of create made while the identity was resolved to the owner
OwnerCreates == {n \in 1..Len(createCalls) : OwnerCheck(createCalls[n].uid)}

\* C5: every call of create with a valid project by the owner leads to an
\* insert whose owner_id is the resolved identity (until then the call waits
\* for the debounce delay), and a list synced after the insert holds the
\* project with a service-assigned identifier and a creation time that is
\* not earlier than the call.
C5_EverySubmissionIsInserted ==
    /\ \A n \in OwnerCreates :
          \/ \E t \in timers : t.cb.call = n
          \/ \E i \in insertsIssued :
                i.call = n /\ i.owner_id = createCalls[n].uid
    /\ cacheFresh =>
          \A r \in store :
             (r.call \in OwnerCreates /\ r.owner_id = userId) =>
                \E i \in 1..Len(projects) :
                   /\ projects[i].id = r.id
                   /\ r.id >= 1
                   /\ projects[i].title = r.title
                   /\ projects[i].createdAt >= createCalls[r.call].at

\* a call of create by the owner that is neither waiting nor was inserted
C5_Witness ==
    \E n \in OwnerCreates :
       /\ \A t \in timers : t.cb.call # n
       /\ \A i \in insertsIssued : i.call # n

\* an update request leaves the service
C6_Step ==
    \A req \in requests :
       (req.kind = "update" /\ requests' = requests \ {req}) =>
          /\ Cardinality(store') = Cardinality(store)
          /\ \A r \in store :
                IF r.id # req.id
                THEN r \in store'
                ELSE \E q \in store' :
                        /\ q.id = r.id
                        /\ q.owner_id = r.owner_id
                        /\ q.created_at = r.created_at

C6_State ==
    /\ \A req \in requests :
          req.kind = "update" => "id" \notin DOMAIN req.payload
    /\ (cacheFresh /\ lastWrite.kind = "update") =>
          \E i \in 1..Len(projects) :
             /\ projects[i].id = lastWrite.id
             /\ projects[i].title = lastWrite.payload.title

\* C6: the payload of an update request has no id field; carrying it out
\* changes no row but the one with the given id and leaves that row's id and
\* owner_id as they were; a list synced after the update shows the project
\* with that id under its new title.
C6_UpdateRoundTrip == []C6_State /\ [][C6_Step]_vars

\* an update changed the title of one of two projects, and the synced list
\* shows it
C6_Witness ==
    /\ cacheFresh
    /\ lastWrite.kind = "update"
    /\ \E g \in lastWrite.gone : g.title # lastWrite.payload.title
    /\ \E i \in 1..Len(projects) :
          projects[i].id = lastWrite.id /\ projects[i].title = lastWrite.payload.title
    /\ Len(projects) = 2

\* C7: in a list synced after a successful delete there is no project with
\* the deleted id, and no tag of the deleted project that no remaining
\* project has is among the derived tags.
C7_DeleteRoundTrip ==
    (cacheFresh /\ lastWrite.kind = "delete") =>
       /\ \A i \in 1..Len(projects) : projects[i].id # lastWrite.id
       /\ \A g \in lastWrite.gone : \A tag \in TagsOf(g.technologies) :
             (\A r \in store : tag \notin TagsOf(r.technologies)) =>
                \A k \in 1..Len(allTags) : allTags[k] # tag

\* the project that alone had the tag b was deleted; another one remains
C7_Witness ==
    /\ cacheFresh
    /\ lastWrite.kind = "delete"
    /\ \E g \in lastWrite.gone : <<"b">> \in TagsOf(g.technologies)
    /\ Len(projects) = 1
    /\ allTags = << <<"a">> >>

C8_Unready == ~supabase \/ userId = NULL

C8_Step ==
    /\ (C8_Unready /\ \E id \in Ids, f \in UpdateInputs : updateProject(id, f)) =>
          (error' = NotReadyMsg /\ requests' = requests)
    /\ (C8_Unready /\ \E id \in Ids : deleteProject(id)) =>
          (error' = NotReadyMsg /\ requests' = requests)
    /\ \A t \in timers \ timers' :
          (createCalls' = createCalls /\ (~supabase \/ t.cb.uid = NULL)) =>
             (error' = NotReadyMsg /\ requests' = requests)
    /\ \A req \in requests' \ requests :
          /\ supabase
          /\ IF req.kind = "insert"
             THEN req.payload.owner_id # NULL
             ELSE userId # NULL

C8_State == ~supabase => (requests = {} /\ insertsIssued = {} /\ store = {})

---------------------------------------------------------------------------
(* Properties of the manager mode *)

C9_State ==
    /\ (ManagerPanelsRendered \/ CardButtonsRendered) =>
          (isManagerMode /\ isAuthReady /\ isAppOwner)
    /\ isAppOwner => (userId # NULL /\ userId = VERCEL_OWNER_ID)

C9_Step == (isManagerMode' # isManagerMode) => (isAuthReady /\ isAppOwner)

\* C9: ProjectForm, the profile panel and the edit and delete buttons of the
\* cards are on screen only when manager mode is on and the viewer is the
\* resolved owner; manager mode changes only when isAuthReady and isAppOwner
\* hold.
C9_ManagementIsOwnerOnly == []C9_State /\ [][C9_Step]_vars

\* the owner sees the form and the buttons of a card
C9_Witness ==
    /\ ManagerPanelsRendered
    /\ CardButtonsRendered
    /\ lastToggle.kind = "switched"

\* C10: after a click on the manager-mode button by a viewer whose resolved
\* identity is the configured owner token, the mode was switched and, when
\* it is on, the owner-only panels are rendered; after a click by a viewer
\* whose resolved identity differs from the configured owner token, manager
\* mode is off and the access-denied message is rendered.
C10_ToggleByIdentity ==
    (lastToggle.kind # "none" /\ userId # NULL /\ VERCEL_OWNER_ID # NULL) =>
       IF userId = VERCEL_OWNER_ID
       THEN /\ lastToggle.kind = "switched"
            /\ isManagerMode = ~lastToggle.from
            /\ isManagerMode => ManagerPanelsRendered
       ELSE /\ lastToggle.kind = "refused"
            /\ ~isManagerMode
            /\ AccessDeniedRendered

\* the click of a viewer who is not the owner was refused, and no
\* access-denied message is on screen
C10_Witness ==
    /\ userId = OtherToken
    /\ VERCEL_OWNER_ID = OwnerToken
    /\ lastToggle.kind = "refused"
    /\ ~isManagerMode
    /\ ~AccessDeniedRendered

---------------------------------------------------------------------------
(* Properties of the tag filter *)

\* the positions that delimit the comma-separated pieces of s
PieceBounds(s) == {0, Len(s) + 1} \cup {k \in 1..Len(s) : s[k] = ","}

\* the comma-separated pieces of s
PiecesOf(s) ==
    {SubSeq(s, a + 1, b - 1) : <<a, b>> \in
        {p \in PieceBounds(s) \X PieceBounds(s) :
            /\ p[1] < p[2]
            /\ \A c \in PieceBounds(s) : ~(p[1] < c /\ c < p[2])}}

\* the non-empty trimmed tokens of the technology fields of a list
TokensOf(list) ==
    LET pieces == UNION {PiecesOf(list[i].technologies) : i \in 1..Len(list)}
        parts == UNION {{SubSeq(p, a, b) : a, b \in 1..Len(p)} : p \in pieces}
    IN  {d \in parts : d # <<>> /\ \E p \in pieces : IsTrimOf(d, p)}

Permuted(list, f) == [i \in 1..Len(list) |-> list[f[i]]]

\* every token of every project once more: within the project's field, and
\* in a second copy of the project
Duplicated(list) ==
    LET twice == [i \in 1..Len(list) |->
                     [list[i] EXCEPT !.technologies = @ \o <<",">> \o @]]
    IN  twice \o list

\* C11: the derived tag list holds exactly the non-empty trimmed tokens of
\* the comma-split technology fields of the loaded projects, each once, in
\* ascending order of their code units; it is the same for every
\* permutation of the projects and when tokens are duplicated within and
\* across projects.
C11_TagListIsSortedTokenSet ==
    /\ {allTags[k] : k \in 1..Len(allTags)} = TokensOf(projects)
    /\ \A i, j \in 1..Len(allTags) : i < j => LexLess(allTags[i], allTags[j])
    /\ \A f \in Permutations(1..Len(projects)) :
          TagListOf(Permuted(projects, f)) = allTags
    /\ TagListOf(Duplicated(projects)) = allTags

\* two projects name the same two tags in different orders, with blanks
C11_Witness ==
    /\ Len(projects) = 2
    /\ projects[1].technologies = <<"a", ",", "A">>
    /\ projects[2].technologies = <<"A", ",", "a">>
    /\ allTags = << <<"A">>, <<"a">> >>

\* the two clicks the history holds selected the same tag, which was not
\* active before the first
SelectedTwice ==
    /\ Len(tagClicks) = 2
    /\ tagClicks[1].tag # NoTag
    /\ tagClicks[1].tag = tagClicks[2].tag
    /\ tagClicks[1].was # tagClicks[1].tag

\* C12: at most one tag is active; after a tag was selected and then
\* selected again no tag is active and the displayed list is the unfiltered
\* list, which is the list displayed before the first selection when no
\* filter was active then; a click on another tag than the active one makes
\* that tag the active one.
C12_TagSelectionToggles ==
    /\ Cardinality({k \in 1..Len(allTags) : allTags[k] = activeTag}) <= 1
    /\ activeTag # NoTag => \E k \in 1..Len(allTags) : allTags[k] = activeTag
    /\ SelectedTwice =>
          /\ activeTag = NoTag
          /\ filteredProjects = projects
          /\ tagClicks[1].was = NoTag => filteredProjects = tagClicks[1].shown
    /\ \A n \in 1..Len(tagClicks) :
          (n = Len(tagClicks) /\ tagClicks[n].tag # NoTag
                /\ tagClicks[n].was # tagClicks[n].tag) =>
             activeTag = tagClicks[n].tag

\* a tag that hid one of two projects was selected and selected again
C12_Witness ==
    /\ SelectedTwice
    /\ tagClicks[1].was = NoTag
    /\ Len(tagClicks[2].shown) < Len(projects)
    /\ filteredProjects = projects

---------------------------------------------------------------------------
(* Properties of the repository client over a shared table *)

\* C13: the client reads, changes and removes only projects whose owner_id
\* is its own identity: the cached list holds only such projects, every
\* inserted row carries the identity of the call that made it, and a
\* project of another owner stays in the table as it was.
C13_OperationsAreOwnerScoped ==
    /\ \A i \in 1..Len(projects) : projects[i].owner_id = userId
    /\ \A r \in store : r.call # 0 => r.owner_id = createCalls[r.call].uid
    /\ ForeignRow \in store

\* the client's delete removed the other owner's project
C13_Witness ==
    /\ userId = OwnerToken
    /\ lastWrite.kind = "delete"
    /\ ForeignRow \in lastWrite.gone
    /\ ForeignRow \notin store

---------------------------------------------------------------------------
(* Properties of the synchronisation *)

\* the projects of the identity in the table, newest first, as the client
\* holds them
OwnedNewestFirst ==
    LET rows == NewestFirst({r \in store : r.owner_id = userId})
    IN  [n \in 1..Len(rows) |-> MapProject(rows[n])]

\* C14: with the subscription active and every query answered with rows,
\* once no list query is in flight the cached list is the table's projects
\* of this identity, newest first.
C14_CacheConvergesToStore ==
    (channel = "subscribed" /\ queries = <<>>) => projects = OwnedNewestFirst

\* the response of a query that was answered before a write was applied
\* after the response of the re-query that the write's notification caused:
\* nothing is in flight and the cached list lacks a project of the table
C14_Witness ==
    /\ channel = "subscribed"
    /\ queries = <<>>
    /\ requests = {}
    /\ timers = {}
    /\ error = NULL
    /\ ~loading
    /\ projects = <<>>
    /\ store # {}

\* a failed list query leaves the client
C15_FailureStep ==
    (/\ Len(queries') = Len(queries) - 1
     /\ \E i \in 1..Len(queries) :
           /\ queries[i].status = "error"
           /\ \A j \in 1..Len(queries') :
                 queries'[j] = queries[IF j < i THEN j ELSE j + 1]) =>
       /\ error' # NULL
       /\ error' = FetchErrorMsg
       /\ loading' = FALSE
       /\ projects' = projects

\* the cached list changes only to the rows of a query that succeeded
C15_ListStep ==
    (projects' # projects) =>
       \E i \in 1..Len(queries) :
          /\ queries[i].status = "ok"
          /\ projects' = [n \in 1..Len(queries[i].data) |->
                             MapProject(queries[i].data[n])]

\* a list query is issued only by the subscribe callback and by a change
\* notification
C15_QueryStep ==
    (Len(queries') > Len(queries)) =>
       \/ channel = "joining" /\ channel' = "subscribed"
       \/ /\ channel = "subscribed"
          /\ \E req \in requests : requests' = requests \ {req}

\* C15: when a list query fails, the client stores the user-facing error
\* string, clears the loading flag and leaves the cached list as the last
\* successful query set it; it issues no list query of its own accord
\* afterwards: only a change notification or a new subscription does.
C15_FailedQueryKeepsList ==
    [][C15_FailureStep /\ C15_ListStep /\ C15_QueryStep]_vars

\* after a write a list query failed: the list of before the write stays
C15_Witness ==
    /\ error = FetchErrorMsg
    /\ ~loading
    /\ queries = <<>>
    /\ projects # <<>>
    /\ lastWrite.kind = "insert"
    /\ Len(projects) < Cardinality(store)

---------------------------------------------------------------------------
(* C16 *)

C16_State ==
    /\ Cardinality(subscriptions) <= 1
    /\ \A h \in subscriptions : mounted /\ h.inst = mounts

C16_Step ==
    /\ (mounted /\ ~mounted') => subscriptions' = {}
    /\ Len(queries') <= Len(queries) + 1
    /\ (store' # store /\ \E h \in subscriptions : h.joined)
          => Len(queries') = Len(queries) + 1

\* C16: however the page is mounted, unmounted and mounted again, the
\* channel an instance of useProjects subscribed is released when the
\* instance is unmounted; so the service holds at most one channel, that of
\* the active instance, and a change of the table that a confirmed channel
\* is notified of starts exactly one query.
C16_SubscriptionIsReleased == []C16_State /\ [][C16_Step]_vars

\* a second instance is subscribed, has loaded its list and was notified of
\* a deletion
C16_Witness ==
    /\ mounts = 2
    /\ subscriptions = {[inst |-> 2, uid |-> userId, joined |-> TRUE]}
    /\ projects # <<>>
    /\ lastWrite.kind = "delete"
    /\ Len(queries) = 1
    /\ queries[1].status = "sent"

---------------------------------------------------------------------------
(* C19 *)

\* the effect of useSupabaseAuth has run in the active instance
Activated == mounted /\ authRan

\* C19 as stated: after any activation the identity is non-null, the ready
\* flag is true and the stored token is the identity.
C19_ActivationResolvesIdentity ==
    Activated => (userId # NULL /\ isAuthReady /\ localStorage = userId)

C19_State ==
    Activated =>
       /\ isAuthReady
       /\ IF supabase
          THEN userId # NULL /\ localStorage = userId
          ELSE userId = NULL /\ ~isAppOwner

C19_Step ==
    /\ (~authRan /\ authRan' /\ supabase) =>
          IF localStorage # NULL
          THEN userId' = localStorage
          ELSE \E k \in DOMAIN UUIDs : userId' = UUIDs[k]
    /\ (localStorage # NULL \/ ~supabase) => localStorage' = localStorage

\* C19, amended: with the service handle set, an activation takes the
\* stored token as the identity if there is one and otherwise generates a
\* token and stores it; afterwards the identity is non-null, the ready flag
\* is true and the stored token is the identity, and a stored token is
\* never replaced, so every later activation resolves the same identity.
\* With the service handle unset an activation only sets the ready flag: the
\* identity stays null and the storage is neither read nor written.
C19_ConfiguredActivationResolvesIdentity == []C19_State /\ [][C19_Step]_vars

\* the second instance resolved the token that the first one generated
C19_Witness ==
    /\ mounts = 2
    /\ Activated
    /\ supabase
    /\ userId = UUIDs[1]
    /\ localStorage = UUIDs[1]

---------------------------------------------------------------------------
(* C20 *)

C20_State ==
    /\ draftInFlight <= 1
    /\ draftInFlight = 1 => (isLoading /\ draftPc \in {"fetching", "waiting"})
    /\ draftInFlight = 0 => (~isLoading /\ draftPc = "idle")

\* an invocation starts only while none runs, and the one that runs ends
\* only with a usable response or with the failure of the last attempt
C20_Step ==
    /\ draftInFlight' > draftInFlight => draftInFlight = 0
    /\ draftInFlight' < draftInFlight =>
          /\ draftOutcome' \in {"success", "exhausted"}
          /\ ~isLoading'

\* C20: at most one invocation of the drafting tool that passed validation
\* is running; while it runs, fetching or waiting between attempts,
\* isLoading is true, which disables the button; when it has ended
\* isLoading is false again, so the button is enabled whenever title and
\* technologies are filled in.
C20_OneDraftInFlight == []C20_State /\ [][C20_Step]_vars

\* an invocation is waiting between two attempts, the fields still filled in
C20_Witness ==
    /\ draftInFlight = 1
    /\ draftPc = "waiting"
    /\ isLoading
    /\ title # ""
    /\ technologies # <<>>

---------------------------------------------------------------------------
(* C17 *)

\* the insert requests sent so far for the k-th example project
SeedInsertsOf(k) ==
    {x \in insertsIssued : createCalls[x.call].payload = initialProjectsData[k]}

\* the rows of the table that hold the k-th example project
SeedRowsOf(k) ==
    {r \in store : r.call # 0 /\ createCalls[r.call].payload = initialProjectsData[k]}

\* C17: once the seeding callback, 1500 ms after the owner's list was seen
\* empty, has run and the debounce window of its calls has passed, an insert
\* was sent for each of the three example projects, exactly once.
C17_SeedingInsertsEveryExample ==
    (Len(seedLog) = 1 /\ timers = {}) =>
       \A k \in 1..Len(initialProjectsData) : Cardinality(SeedInsertsOf(k)) = 1

\* seeding has run and everything it caused has settled: the table and the
\* list hold the last example project only
C17_Witness ==
    /\ Len(seedLog) = 1
    /\ seedLog[1].at = SEED_DELAY_MS
    /\ timers = {}
    /\ requests = {}
    /\ queries = <<>>
    /\ Cardinality(store) = 1
    /\ SeedRowsOf(3) = store
    /\ Len(projects) = 1

---------------------------------------------------------------------------
(* C18 *)

\* C18: the seeding callback runs at most once after a mount, and only for
\* the owner, with loading finished, the list empty and never having held
\* a project.
C18_SeedingIsOneTimeAndGuarded ==
    /\ Len(seedLog) <= 1
    /\ \A i \in 1..Len(seedLog) :
          /\ seedLog[i].owner
          /\ ~seedLog[i].loading
          /\ seedLog[i].empty
          /\ ~seedLog[i].held

\* the seeding callback ran a second time, after the list had held the
\* project of the first run, and its insert was sent
C18_Witness ==
    /\ Len(seedLog) = 2
    /\ seedLog[2].held
    /\ \E x \in insertsIssued : x.call = 2 * Len(initialProjectsData)

---------------------------------------------------------------------------
(* C21 *)

FormRetained == UNCHANGED <<title, description, technologies, formId, currentProject>>

\* the service refuses the update that handleSubmit awaits
C21_Failure ==
    (\E req \in requests :
        /\ req.form
        /\ requests' = requests \ {req}
        /\ store' = store
        /\ error' = UpdateErrorMsg)
    => FormRetained

\* handleSubmit calls addProject: the insert has not been sent, let alone
\* succeeded
C21_Create == Len(createCalls') > Len(createCalls) => FormRetained

\* a missing field or a viewer who is not the owner
C21_Validation ==
    (submissionError' \in {RequiredMsg, SecurityMsg} /\ submissionError' # submissionError)
    => /\ FormRetained
       /\ UNCHANGED <<requests, timers, createCalls, insertsIssued, store>>

\* C21: handleSubmit clears the form fields and the editing selection only
\* when the create or update it submitted has succeeded: a refused update
\* leaves them, a create leaves them until its insert succeeded, and a
\* missing field or a viewer who is not the owner leaves them and calls no
\* mutation.
C21_SubmitClearsOnlyOnSuccess == [][C21_Failure /\ C21_Create /\ C21_Validation]_vars

\* the service refused the update of an edited project and the form is
\* empty, the editing selection gone
C21_Witness ==
    /\ error = UpdateErrorMsg
    /\ requests = {}
    /\ currentProject = <<>>
    /\ formId = 0
    /\ title = ""
    /\ description = <<>>
    /\ technologies = <<>>

---------------------------------------------------------------------------
(* C22 *)

\* the step takes the i-th query out of the queries in flight
Leaves(i) ==
    /\ Len(queries') = Len(queries) - 1
    /\ \A j \in 1..Len(queries') :
          IF j < i
          THEN [queries'[j] EXCEPT !.late = FALSE] = [queries[j] EXCEPT !.late = FALSE]
          ELSE queries'[j] = queries[j + 1]

\* C22: the response of a list query that was issued before a query whose
\* rows the list already took is not put into the list.
C22_LateResponseIsDropped ==
    [][\A i \in 1..Len(queries) :
          (queries[i].late /\ Leaves(i)) => projects' = projects]_vars

\* the rows of the later of two overlapping queries are in the list, and
\* the earlier one has been answered with other rows
C22_Witness ==
    \E i \in 1..Len(queries) :
       /\ queries[i].late
       /\ queries[i].status = "ok"
       /\ projects # [n \in 1..Len(queries[i].data) |-> MapProject(queries[i].data[n])]

---------------------------------------------------------------------------
(* C23 *)

\* the run of the seeding callback that made the n-th call of addProject
\* (under SpecSeed every call is one of a seeding run)
SeedRunOf(n) == ((n - 1) \div Len(initialProjectsData)) + 1

\* C23: no seed insert is sent by a run of the seeding callback that found
\* the list empty because the list query had failed.
C23_NoSeedingAfterFailedQuery ==
    \A x \in insertsIssued : seedLog[SeedRunOf(x.call)].error # FetchErrorMsg

\* the only list query failed, seeding ran all the same, and its insert
\* put an example project into the table
C23_Witness ==
    /\ Len(seedLog) = 1
    /\ seedLog[1].error = FetchErrorMsg
    /\ ~seedLog[1].held
    /\ lastWrite.kind = "insert"
    /\ Cardinality(store) = 1

---------------------------------------------------------------------------
(* C24 *)

\* C24: the active tag is null or one of the tags of the loaded projects,
\* so a list that holds projects is never displayed as empty.
C24_ActiveTagIsListed ==
    /\ activeTag = NoTag \/ \E k \in 1..Len(allTags) : allTags[k] = activeTag
    /\ projects # <<>> => filteredProjects # <<>>

\* the list holds a project, nothing is in flight, and no card is displayed:
\* the active tag is the tag of a project that was deleted or edited
C24_Witness ==
    /\ activeTag # NoTag
    /\ \A k \in 1..Len(allTags) : allTags[k] # activeTag
    /\ projects # <<>>
    /\ filteredProjects = <<>>
    /\ queries = <<>>
    /\ requests = {}
    /\ error = NULL

=============================================================================
